---- MODULE Spec2Model ----
\* Model of Renderer.cpp (joquillan/RayTracer): the frame renderer with its
\* three execution strategies, the per-pixel light loop and the lighting-mode
\* cycle.  Vectors are integer triples (axis-aligned, so that their length is
\* an integer), colours are integer triples, the shadow ray is kept in
\* hundredths so that its 0.01 bias is the integer 1.
EXTENDS Integers, Sequences, FiniteSets, TLC

\* ---------------------------------------------------------------- bounds
MaxWidth == 2
MaxHeight == 2
MaxCores == 3
MaxLights == 2
MaxFrames == 2

\* ------------------------------------------------------------- constants
ShadowMin == 1
FixedScale == 100
ByteMax == 255

Modes == {"ObservedArea", "Radiance", "BRDF", "Combined"}
Strategies == {"Sequential", "Async", "ParallelFor"}

\* ------------------------------------------------- vector / colour maths
Abs(x) == IF x < 0 THEN -x ELSE x

Max2(a, b) == IF a > b THEN a ELSE b

Dot(a, b) == a[1] * b[1] + a[2] * b[2] + a[3] * b[3]

\* length of an axis-aligned vector
Magnitude(v) == Abs(v[1]) + Abs(v[2]) + Abs(v[3])

\* Vector3::Normalized; the zero vector is outside the inputs
Normalized(v) == [k \in 1..3 |-> v[k] \div Magnitude(v)]

VecSub(a, b) == [k \in 1..3 |-> a[k] - b[k]]

VecAdd(a, b) == [k \in 1..3 |-> a[k] + b[k]]

VecScale(s, a) == [k \in 1..3 |-> s * a[k]]

VecNeg(a) == [k \in 1..3 |-> -a[k]]

ColorAdd(a, b) == [k \in 1..3 |-> a[k] + b[k]]

ColorMul(a, b) == [k \in 1..3 |-> a[k] * b[k]]

ColorScale(a, s) == [k \in 1..3 |-> a[k] * s]

Black == <<0, 0, 0>>

White == <<1, 1, 1>>

\* ColorRGB::MaxToOne followed by the uint8_t casts of channel * 255
ToByte(c, m) == (IF m > 1 THEN (c * ByteMax) \div m ELSE c * ByteMax) % 256

\* SDL_MapRGB on the clamped colour (an XRGB8888 surface)
MapRGB(color) ==
  LET m == Max2(color[1], Max2(color[2], color[3]))
  IN  ToByte(color[1], m) * 65536 + ToByte(color[2], m) * 256 + ToByte(color[3], m)

\* ------------------------------------------------ collaborators (stubs)
\* LightUtils::GetDirectionToLight: vector from the point to the light
GetDirectionToLight(light, origin) == VecSub(light.origin, origin)

\* LightUtils::GetRadiance
GetRadiance(light, origin) == light.E

\* Scene::DoesHit: the occluder towards this light sits occ hundredths from
\* the hit point (0: none); the ray starts ray.min further on
DoesHit(light, ray) ==
  /\ light.occ # 0
  /\ ray.min <= light.occ - ShadowMin
  /\ light.occ - ShadowMin <= ray.max

\* Material::Shade of a diffuse material: its reflectance
Shade(materials, hit, l, v) == materials[hit.materialIndex + 1]

\* ---------------------------------------------------------- RenderPixel
\* the shadow ray of lines 148-158, in hundredths
ShadowRayOf(hit, toLight) ==
  LET shadowDir == Normalized(toLight)
  IN  [origin    |-> VecAdd(VecScale(FixedScale, hit.origin), VecScale(ShadowMin, shadowDir)),
       direction |-> shadowDir,
       min       |-> ShadowMin,
       max       |-> Magnitude(toLight) * FixedScale]

CulledMut(normal, shadowDir) == Dot(normal, shadowDir) > 0

\* line 162: the light is behind the surface
Culled(normal, shadowDir) == Dot(normal, shadowDir) < 0

ShadowedMut(doesHit, shadowsEnabled) == doesHit

\* line 165: the light is skipped as occluded
Shadowed(doesHit, shadowsEnabled) == doesHit /\ shadowsEnabled

ShadeViewDirMut(viewRay) == VecNeg(Normalized(viewRay.direction))

\* line 170: the viewing direction handed to Shade
ShadeViewDir(viewRay) == Normalized(viewRay.direction)

AccumulateMut(mode, finalColor, E, BRDFrgb, cosTheta) ==
  CASE mode = "ObservedArea" -> ColorAdd(finalColor, ColorScale(White, cosTheta))
    [] mode = "Radiance"     -> ColorAdd(finalColor, E)
    [] mode = "BRDF"         -> ColorAdd(finalColor, BRDFrgb)
    [] mode = "Combined"     -> ColorAdd(finalColor, ColorMul(E, BRDFrgb))

\* lines 172-188: the switch on the lighting mode
Accumulate(mode, finalColor, E, BRDFrgb, cosTheta) ==
  CASE mode = "ObservedArea" -> ColorAdd(finalColor, ColorScale(White, cosTheta))
    [] mode = "Radiance"     -> ColorAdd(finalColor, E)
    [] mode = "BRDF"         -> ColorAdd(finalColor, BRDFrgb)
    [] mode = "Combined"     -> ColorAdd(finalColor, ColorScale(ColorMul(E, BRDFrgb), cosTheta))

\* lines 155-188: one iteration of the loop over the lights; st carries
\* finalColor, the calls made on the collaborators and the modes read
LightIter(st, pin, i, mode, shadowsEnabled) ==
  LET light     == pin.lights[i]
      hit       == pin.hit
      toLight   == GetDirectionToLight(light, hit.origin)
      shadowRay == ShadowRayOf(hit, toLight)
      shadowDir == shadowRay.direction
      log1      == Append(st.log, <<"GetDirectionToLight", i>>)
      doesHit   == DoesHit(light, shadowRay)
      log2      == Append(log1, <<"DoesHit", i, shadowRay>>)
      E         == GetRadiance(light, hit.origin)
      l         == Normalized(shadowDir)
      v         == ShadeViewDir(pin.viewRay)
      BRDFrgb   == Shade(pin.materials, hit, l, v)
      log4      == log2 \o << <<"GetRadiance", i>>, <<"Shade", i, hit, l, v>> >>
  IN  IF Culled(hit.normal, shadowDir)
        THEN [st EXCEPT !.log = log1]
      ELSE IF Shadowed(doesHit, shadowsEnabled)
        THEN [st EXCEPT !.log = log2]
      ELSE [finalColor |-> Accumulate(mode, st.finalColor, E, BRDFrgb, Dot(hit.normal, shadowDir)),
            log        |-> log4,
            modesRead  |-> st.modesRead \cup {mode}]

RECURSIVE LightLoop(_, _, _, _, _)
\* lines 153-189: for (i = 0; i < lights.size(); ++i)
LightLoop(st, pin, i, mode, shadowsEnabled) ==
  IF i > Len(pin.lights) THEN st
  ELSE LightLoop(LightIter(st, pin, i, mode, shadowsEnabled), pin, i + 1, mode, shadowsEnabled)

EntersLightLoopMut(hit) == TRUE

\* line 146: if (closestHit.didHit)
EntersLightLoop(hit) == hit.didHit

\* lines 139-190: finalColor of one pixel before clamping, given the closest
\* hit of its view ray, with the calls made and the modes read
RenderPixelOp(pin, mode, shadowsEnabled) ==
  IF EntersLightLoop(pin.hit)
    THEN LightLoop([finalColor |-> Black, log |-> <<>>, modesRead |-> {}],
                   pin, 1, mode, shadowsEnabled)
    ELSE [finalColor |-> Black, log |-> <<>>, modesRead |-> {}]

\* lines 194-200: the value stored in the framebuffer
PixelValue(r) == MapRGB(r.finalColor)

\* ------------------------------------------------------------ the scene
Materials == << <<1, 0, 1>>, <<1, 2, 0>> >>

HitOrigin == <<0, 0, 0>>

HitNormal == <<0, 1, 0>>

\* lights in front of, behind and level with the surface at HitOrigin
LightOrigins == {<<0, 2, 0>>, <<0, -1, 0>>, <<1, 0, 0>>}

\* occluder towards the light: none, before the light, beyond the light
Occluders == {0, 50, 300}

Radiances == {<<1, 1, 1>>, <<2, 0, 1>>}

LightSet == [origin : LightOrigins, occ : Occluders, E : Radiances]

ViewDirs == {<<0, 0, 1>>, <<1, 0, 0>>}

HitSet == [didHit : BOOLEAN, origin : {HitOrigin}, normal : {HitNormal}, materialIndex : {0, 1}]

LightSeqs == UNION {[1..n -> LightSet] : n \in 0..MaxLights}

PixelInputs ==
  [hit : HitSet, viewRay : [origin : {<<0, 0, -1>>}, direction : ViewDirs],
   lights : LightSeqs, materials : {Materials}]

MkLight(o, occ, e) == [origin |-> o, occ |-> occ, E |-> e]

SceneLights ==
  << MkLight(<<0, 2, 0>>, 0, <<1, 1, 1>>), MkLight(<<1, 0, 0>>, 50, <<2, 0, 1>>) >>

\* Scene::GetClosestHit for the view ray of pixel (px, py) in a scene:
\* a miss, or a hit on one of two materials
GetClosestHit(scene, px, py) ==
  LET k == (px + 2 * py + scene) % 3
  IN  [didHit |-> k # 0, origin |-> HitOrigin, normal |-> HitNormal,
       materialIndex |-> IF k = 2 THEN 1 ELSE 0]

SceneIds == {0, 1, 2}

\* lines 122-143: the view ray of pixel (px, py) and its closest hit
PixelInput(scene, px, py) ==
  [hit      |-> GetClosestHit(scene, px, py),
   viewRay  |-> [origin |-> <<0, 0, -1>>, direction |-> <<0, 0, 1>>],
   lights   |-> SceneLights,
   materials |-> Materials]

\* lines 122-190 for every scene, pixel, lighting mode and shadow flag:
\* RenderPixel reads nothing else, so its result is a function of these
PixelResult ==
  [scene \in SceneIds, px \in 0..(MaxWidth - 1), py \in 0..(MaxHeight - 1),
   mode \in Modes, shadowsEnabled \in BOOLEAN |->
     RenderPixelOp(PixelInput(scene, px, py), mode, shadowsEnabled)]

\* ---------------------------------------------------------------- state
VARIABLES
  m_Width, m_Height,        \* window size read by the constructor
  m_pBufferPixels,          \* the framebuffer, slot -> packed pixel
  m_CurrentLightingMode,
  m_ShadowsEnabled,
  strategy,                 \* which #if branch of Render is compiled
  numCores,                 \* std::thread::hardware_concurrency()
  sceneId,                  \* the scene handed to Render
  pc,                       \* position of the thread that calls Render
  coreId, numUnassignedPixels, currPixelIndex,   \* locals of the launch loop
  async_futures,            \* launched tasks: [pixelIndex, pixelIndexEnd]
  waitIdx,                  \* futures already waited for
  pending,                  \* indices parallel_for has not run yet
  seqI,                     \* loop variable of the sequential loop
  calls,                    \* pixel index -> RenderPixel calls this frame
  writers,                  \* slot -> pixel indices that wrote it this frame
  modesSeen,                \* lighting modes read by RenderPixel this frame
  frames,                   \* frames presented
  modeStart, cyclesDone,    \* mode before, and number of, the last cycles
  pixIn, pixOut, pixDone    \* one RenderPixel call on drawn inputs

cfgVars == <<m_Width, m_Height, m_ShadowsEnabled, strategy, numCores, sceneId>>

loopVars == <<coreId, numUnassignedPixels, currPixelIndex, waitIdx, seqI>>

ghostVars == <<calls, writers, modesSeen>>

cycleVars == <<modeStart, cyclesDone>>

pixVars == <<pixIn, pixOut, pixDone>>

vars == <<cfgVars, m_pBufferPixels, m_CurrentLightingMode, pc, loopVars, async_futures,
          pending, ghostVars, frames, cycleVars, pixVars>>

\* line 50: const uint32_t numPixels = m_Width * m_Height (the sizes modelled
\* are far from the 32-bit wrap)
numPixels == m_Width * m_Height

\* line 60
numPixelsPerTask == numPixels \div numCores

EmptyOut == [finalColor |-> Black, log |-> <<>>, modesRead |-> {}]

\* lines 26-33: the renderer after construction, before the first frame
Init ==
  /\ m_Width \in 1..MaxWidth
  /\ m_Height \in 1..MaxHeight
  /\ m_pBufferPixels = [s \in 0..(m_Width * m_Height - 1) |-> 0]
  /\ m_CurrentLightingMode \in Modes
  /\ m_ShadowsEnabled \in BOOLEAN
  /\ strategy \in Strategies
  /\ numCores \in 1..MaxCores
  /\ (strategy # "Async" => numCores = 1)
  /\ sceneId \in SceneIds
  /\ pc = "idle"
  /\ coreId = 0 /\ numUnassignedPixels = 0 /\ currPixelIndex = 0
  /\ async_futures = <<>>
  /\ waitIdx = 0
  /\ pending = {}
  /\ seqI = 0
  /\ calls = [i \in 0..(m_Width * m_Height - 1) |-> 0]
  /\ writers = [s \in 0..(m_Width * m_Height - 1) |-> {}]
  /\ modesSeen = {}
  /\ frames = 0
  /\ modeStart = m_CurrentLightingMode
  /\ cyclesDone = 0
  /\ pixIn = PixelInput(0, 0, 0)
  /\ pixOut = EmptyOut
  /\ pixDone = FALSE

\* ------------------------------------------------------- lighting mode
CycleLightingModeMut(mode) ==
  CASE mode = "ObservedArea" -> "Radiance"
    [] mode = "Radiance"     -> "BRDF"
    [] mode = "BRDF"         -> "ObservedArea"
    [] mode = "Combined"     -> "ObservedArea"
    [] OTHER                 -> mode

\* lines 211-232
CycleLightingMode(mode) ==
  CASE mode = "ObservedArea" -> "Radiance"
    [] mode = "Radiance"     -> "BRDF"
    [] mode = "BRDF"         -> "Combined"
    [] mode = "Combined"     -> "ObservedArea"
    [] OTHER                 -> mode

\* the thread that calls Render is not inside Render: Render blocks it
CallerIdle == pc = "idle"

\* lines 211-232, called from the main loop between two frames
CallCycleLightingMode ==
  /\ CallerIdle
  /\ m_CurrentLightingMode' = CycleLightingMode(m_CurrentLightingMode)
  /\ cyclesDone' = IF cyclesDone = 4 THEN 1 ELSE cyclesDone + 1
  /\ modeStart' = IF cyclesDone = 4 THEN m_CurrentLightingMode ELSE modeStart
  /\ UNCHANGED <<cfgVars, m_pBufferPixels, pc, loopVars, async_futures, pending,
                 ghostVars, frames, pixVars>>

\* --------------------------------------------------------------- Render
ConstMemberMut(mode) == CycleLightingMode(mode)

\* lines 35, 120: Render and RenderPixel are const member functions
ConstMember(mode) == mode

SlotOfMut(px, py, width) == px + py

\* line 197: the framebuffer offset of pixel (px, py)
SlotOf(px, py, width) == px + py * width

\* lines 120-203: RenderPixel called for pixelIndex
RenderPixel(pixelIndex) ==
  LET px   == pixelIndex % m_Width
      py   == pixelIndex \div m_Width
      slot == SlotOf(px, py, m_Width)
      r    == PixelResult[sceneId, px, py, m_CurrentLightingMode, m_ShadowsEnabled]
  IN  /\ m_pBufferPixels' = [m_pBufferPixels EXCEPT ![slot] = PixelValue(r)]
      /\ calls' = [calls EXCEPT ![pixelIndex] = @ + 1]
      /\ writers' = [writers EXCEPT ![slot] = @ \cup {pixelIndex}]
      /\ modesSeen' = modesSeen \cup r.modesRead
      /\ m_CurrentLightingMode' = ConstMember(m_CurrentLightingMode)

\* lines 35-62: the per-frame setup of Render
RenderBegin ==
  /\ CallerIdle
  /\ frames < MaxFrames
  /\ pc' = CASE strategy = "Async"       -> "async_launch"
             [] strategy = "ParallelFor" -> "parallel_for"
             [] OTHER                    -> "sequential"
  /\ coreId' = 0
  /\ numUnassignedPixels' = IF strategy = "Async" THEN numPixels % numCores ELSE 0
  /\ currPixelIndex' = 0
  /\ async_futures' = <<>>
  /\ waitIdx' = 0
  /\ seqI' = 0
  /\ pending' = IF strategy = "ParallelFor" THEN 0..(numPixels - 1) ELSE {}
  /\ calls' = [i \in DOMAIN calls |-> 0]
  /\ writers' = [s \in DOMAIN writers |-> {}]
  /\ modesSeen' = {}
  /\ UNCHANGED <<cfgVars, m_pBufferPixels, m_CurrentLightingMode, frames, cycleVars, pixVars>>

TaskSizeMut(perTask, unassigned) == perTask

\* lines 66-71
TaskSize(perTask, unassigned) == IF unassigned > 0 THEN perTask + 1 ELSE perTask

\* lines 64-85: one iteration of the launch loop
AsyncLaunch ==
  /\ pc = "async_launch"
  /\ coreId < numCores
  /\ LET taskSize == TaskSize(numPixelsPerTask, numUnassignedPixels)
     IN  /\ async_futures' = Append(async_futures,
                [pixelIndex |-> currPixelIndex, pixelIndexEnd |-> currPixelIndex + taskSize])
         /\ currPixelIndex' = currPixelIndex + taskSize
  /\ numUnassignedPixels' = IF numUnassignedPixels > 0 THEN numUnassignedPixels - 1
                            ELSE numUnassignedPixels
  /\ coreId' = coreId + 1
  /\ UNCHANGED <<cfgVars, m_pBufferPixels, m_CurrentLightingMode, pc, waitIdx, seqI,
                 pending, ghostVars, frames, cycleVars, pixVars>>

\* line 64: the launch loop ends
AsyncLaunchDone ==
  /\ pc = "async_launch"
  /\ coreId >= numCores
  /\ pc' = "async_wait"
  /\ UNCHANGED <<cfgVars, m_pBufferPixels, m_CurrentLightingMode, loopVars, async_futures,
                 pending, ghostVars, frames, cycleVars, pixVars>>

\* lines 73-82: a launched task renders its next pixel
AsyncTask(t) ==
  /\ t \in 1..Len(async_futures)
  /\ async_futures[t].pixelIndex < async_futures[t].pixelIndexEnd
  /\ RenderPixel(async_futures[t].pixelIndex)
  /\ async_futures' = [async_futures EXCEPT ![t].pixelIndex = @ + 1]
  /\ UNCHANGED <<cfgVars, pc, loopVars, pending, frames, cycleVars, pixVars>>

FutureReadyMut(task) == TRUE

\* line 91: f.wait() returns once the task has run to its end
FutureReady(task) == task.pixelIndex >= task.pixelIndexEnd

\* lines 89-92: wait for the next future
AsyncWait ==
  /\ pc = "async_wait"
  /\ waitIdx < Len(async_futures)
  /\ FutureReady(async_futures[waitIdx + 1])
  /\ waitIdx' = waitIdx + 1
  /\ UNCHANGED <<cfgVars, m_pBufferPixels, m_CurrentLightingMode, pc, coreId,
                 numUnassignedPixels, currPixelIndex, seqI, async_futures,
                 pending, ghostVars, frames, cycleVars, pixVars>>

\* line 89: every future has been waited for
AsyncWaitDone ==
  /\ pc = "async_wait"
  /\ waitIdx >= Len(async_futures)
  /\ pc' = "present"
  /\ UNCHANGED <<cfgVars, m_pBufferPixels, m_CurrentLightingMode, loopVars, async_futures,
                 pending, ghostVars, frames, cycleVars, pixVars>>

\* lines 98-100: parallel_for runs the body for some index not yet run
ParallelForBody(i) ==
  /\ pc = "parallel_for"
  /\ i \in pending
  /\ RenderPixel(i)
  /\ pending' = pending \ {i}
  /\ UNCHANGED <<cfgVars, pc, loopVars, async_futures, frames, cycleVars, pixVars>>

\* line 98: parallel_for returns when every index has run
ParallelForReturn ==
  /\ pc = "parallel_for"
  /\ pending = {}
  /\ pc' = "present"
  /\ UNCHANGED <<cfgVars, m_pBufferPixels, m_CurrentLightingMode, loopVars, async_futures,
                 pending, ghostVars, frames, cycleVars, pixVars>>

\* lines 107-110: one iteration of the sequential loop
SequentialStep ==
  /\ pc = "sequential"
  /\ seqI < numPixels
  /\ RenderPixel(seqI)
  /\ seqI' = seqI + 1
  /\ UNCHANGED <<cfgVars, pc, coreId, numUnassignedPixels, currPixelIndex, waitIdx,
                 async_futures, pending, frames, cycleVars, pixVars>>

\* line 107: the sequential loop ends
SequentialDone ==
  /\ pc = "sequential"
  /\ seqI >= numPixels
  /\ pc' = "present"
  /\ UNCHANGED <<cfgVars, m_pBufferPixels, m_CurrentLightingMode, loopVars, async_futures,
                 pending, ghostVars, frames, cycleVars, pixVars>>

\* lines 115-118: SDL_UpdateWindowSurface, then Render returns
Present ==
  /\ pc = "present"
  /\ pc' = "idle"
  /\ frames' = frames + 1
  /\ UNCHANGED <<cfgVars, m_pBufferPixels, m_CurrentLightingMode, loopVars, async_futures,
                 pending, ghostVars, cycleVars, pixVars>>

Next ==
  \/ CallCycleLightingMode
  \/ RenderBegin
  \/ AsyncLaunch
  \/ AsyncLaunchDone
  \/ \E t \in 1..MaxCores : AsyncTask(t)
  \/ AsyncWait
  \/ AsyncWaitDone
  \/ \E i \in 0..(MaxWidth * MaxHeight - 1) : ParallelForBody(i)
  \/ ParallelForReturn
  \/ SequentialStep
  \/ SequentialDone
  \/ Present

Spec == Init /\ [][Next]_vars

\* ------------------------------------------- one RenderPixel call alone
InitPixel ==
  /\ m_Width = 1 /\ m_Height = 1
  /\ m_pBufferPixels = [s \in {0} |-> 0]
  /\ m_CurrentLightingMode \in Modes
  /\ m_ShadowsEnabled \in BOOLEAN
  /\ strategy = "Sequential"
  /\ numCores = 1
  /\ sceneId = 0
  /\ pc = "idle"
  /\ coreId = 0 /\ numUnassignedPixels = 0 /\ currPixelIndex = 0
  /\ async_futures = <<>>
  /\ waitIdx = 0
  /\ pending = {}
  /\ seqI = 0
  /\ calls = [i \in {0} |-> 0]
  /\ writers = [s \in {0} |-> {}]
  /\ modesSeen = {}
  /\ frames = 0
  /\ modeStart = m_CurrentLightingMode
  /\ cyclesDone = 0
  /\ pixIn \in PixelInputs
  /\ pixOut = EmptyOut
  /\ pixDone = FALSE

\* lines 139-200 on the drawn closest hit, lights and view ray
PixelRun ==
  /\ ~pixDone
  /\ pixOut' = RenderPixelOp(pixIn, m_CurrentLightingMode, m_ShadowsEnabled)
  /\ pixDone' = TRUE
  /\ UNCHANGED <<cfgVars, m_pBufferPixels, m_CurrentLightingMode, pc, loopVars,
                 async_futures, pending, ghostVars, frames, cycleVars, pixIn>>

NextPixel == PixelRun

SpecPixel == InitPixel /\ [][NextPixel]_vars

\* ------------------------------------------------------------ properties
AllPixelsOnce == \A i \in 0..(numPixels - 1) : calls[i] = 1 /\ writers[i] = {i}

NoTaskRunning ==
  /\ \A t \in 1..Len(async_futures) :
        async_futures[t].pixelIndex >= async_futures[t].pixelIndexEnd
  /\ pending = {}

\* C2: when the framebuffer is about to be presented, and whenever Render has
\* returned, every task launched for the frame has finished and every pixel
\* of a rendered frame has been written; nothing writes the framebuffer while
\* the caller is outside Render.
C2_ForkJoin ==
  /\ [](pc \in {"present", "idle"} => NoTaskRunning)
  /\ []((pc = "present" \/ (pc = "idle" /\ frames > 0)) => AllPixelsOnce)
  /\ [][pc = "idle" => m_pBufferPixels' = m_pBufferPixels]_vars

C2_Witness ==
  /\ pc = "idle" /\ frames = 1
  /\ strategy = "Async" /\ numCores = 2 /\ numPixels = 4
  /\ Len(async_futures) = 2

RECURSIVE SequentialRender(_, _)
\* lines 107-110 run as one loop: the framebuffer of the sequential strategy
SequentialRender(buf, i) ==
  IF i >= numPixels THEN buf
  ELSE LET px == i % m_Width
           py == i \div m_Width
           r  == PixelResult[sceneId, px, py, m_CurrentLightingMode, m_ShadowsEnabled]
       IN  SequentialRender([buf EXCEPT ![SlotOf(px, py, m_Width)] = PixelValue(r)], i + 1)

\* C3: when a strategy has run to its end, whatever the strategy and the
\* order in which the pixel tasks ran, the framebuffer is the one the
\* sequential loop produces for the same scene, mode and shadow flag.
C3_SameAsSequential ==
  pc = "present" =>
    m_pBufferPixels = SequentialRender([s \in DOMAIN m_pBufferPixels |-> 0], 0)

C3_Witness ==
  /\ pc = "present"
  /\ strategy = "ParallelFor" /\ numPixels = 4 /\ frames = 1
  /\ \E s, t \in DOMAIN m_pBufferPixels : m_pBufferPixels[s] # m_pBufferPixels[t]

ModeOrder == <<"ObservedArea", "Radiance", "BRDF", "Combined">>

ModePos(mode) == CHOOSE k \in 1..4 : ModeOrder[k] = mode

\* C4: after n calls of CycleLightingMode the mode is the n-th successor of
\* the starting mode in the order ObservedArea, Radiance, BRDF, Combined,
\* ObservedArea; it is the starting mode after 4 calls and not after 1, 2, 3.
C4_CycleOfFour ==
  /\ m_CurrentLightingMode = ModeOrder[((ModePos(modeStart) - 1 + cyclesDone) % 4) + 1]
  /\ (cyclesDone = 4 => m_CurrentLightingMode = modeStart)
  /\ (cyclesDone \in 1..3 => m_CurrentLightingMode # modeStart)

C4_Witness == cyclesDone = 4 /\ modeStart = "Combined" /\ m_CurrentLightingMode = "Combined"

\* C5: all RenderPixel calls of one frame read the same lighting mode, the
\* mode does not change while the caller is inside Render, and it changes
\* only by a call of CycleLightingMode.
C5_ModeStableInFrame ==
  /\ [](Cardinality(modesSeen) <= 1)
  /\ [][(pc # "idle" \/ pc' # "idle") => m_CurrentLightingMode' = m_CurrentLightingMode]_vars
  /\ [][m_CurrentLightingMode' # m_CurrentLightingMode => cyclesDone' # cyclesDone]_vars

C5_Witness ==
  /\ pc = "present" /\ frames = 1 /\ cyclesDone >= 1
  /\ numPixels = 4 /\ strategy = "Async"
  /\ modesSeen = {m_CurrentLightingMode}

\* ------------------------------------- properties of one RenderPixel call
ToLight(light) == GetDirectionToLight(light, pixIn.hit.origin)

Behind(light) == Dot(pixIn.hit.normal, ToLight(light)) < 0

Occluded(light) == DoesHit(light, ShadowRayOf(pixIn.hit, ToLight(light)))

Contributes(light) == ~Behind(light) /\ ~(m_ShadowsEnabled /\ Occluded(light))

LogOf(i) == {k \in 1..Len(pixOut.log) : pixOut.log[k][2] = i}

OpsOf(i) == {pixOut.log[k][1] : k \in LogOf(i)}

\* C6: when the closest-hit query reports no hit the pixel written is black,
\* whatever the mode, the shadow flag and the lights, and no query was made
\* on a light, the scene's any-hit test or a material.
C6_NoHitIsBlack ==
  (pixDone /\ ~pixIn.hit.didHit) =>
     /\ pixOut.finalColor = Black
     /\ PixelValue(pixOut) = 0
     /\ pixOut.log = <<>>

C6_Witness ==
  /\ pixDone /\ ~pixIn.hit.didHit
  /\ Len(pixIn.lights) = 2
  /\ \E i \in 1..2 : Contributes(pixIn.lights[i]) /\ pixIn.lights[i].E # Black
  /\ PixelValue(pixOut) = 0

WithLights(pin, keep(_)) == [pin EXCEPT !.lights = SelectSeq(pin.lights, keep)]

\* C7: a light whose direction from the hit point has a negative dot product
\* with the normal adds nothing: the accumulated colour is that of the same
\* pixel without such lights, in every mode and for both shadow flags, and
\* neither the shadow test, the radiance nor the material is queried for it.
C7_BackfaceCulled ==
  (pixDone /\ pixIn.hit.didHit) =>
     /\ pixOut.finalColor =
          RenderPixelOp(WithLights(pixIn, LAMBDA l : ~Behind(l)),
                        m_CurrentLightingMode, m_ShadowsEnabled).finalColor
     /\ \A i \in 1..Len(pixIn.lights) :
          Behind(pixIn.lights[i]) => OpsOf(i) = {"GetDirectionToLight"}

C7_Witness ==
  /\ pixDone /\ pixIn.hit.didHit
  /\ Len(pixIn.lights) = 2
  /\ Behind(pixIn.lights[1]) /\ pixIn.lights[1].occ = 0
  /\ Contributes(pixIn.lights[2])
  /\ pixOut.finalColor # Black

ClearOccluders(pin) ==
  [pin EXCEPT !.lights = [i \in 1..Len(pin.lights) |-> [pin.lights[i] EXCEPT !.occ = 0]]]

\* C8: for the lights in front of the surface whose shadow ray hits an
\* occluder: with shadow testing enabled the accumulated colour is that of
\* the pixel without those lights, with shadow testing disabled it is that of
\* the pixel with the occluders taken away.
C8_ShadowTest ==
  (pixDone /\ pixIn.hit.didHit) =>
     /\ m_ShadowsEnabled =>
          pixOut.finalColor =
            RenderPixelOp(WithLights(pixIn, LAMBDA l : Behind(l) \/ ~Occluded(l)),
                          m_CurrentLightingMode, m_ShadowsEnabled).finalColor
     /\ ~m_ShadowsEnabled =>
          pixOut.finalColor =
            RenderPixelOp(ClearOccluders(pixIn), m_CurrentLightingMode, TRUE).finalColor

C8_Witness ==
  /\ pixDone /\ pixIn.hit.didHit /\ ~m_ShadowsEnabled
  /\ Len(pixIn.lights) = 1
  /\ ~Behind(pixIn.lights[1]) /\ Occluded(pixIn.lights[1])
  /\ pixOut.finalColor # Black

CosTheta(light) == Dot(pixIn.hit.normal, Normalized(ToLight(light)))

ModeTerm(light) ==
  LET E    == light.E
      BRDF == pixIn.materials[pixIn.hit.materialIndex + 1]
  IN  CASE m_CurrentLightingMode = "ObservedArea" -> ColorScale(White, CosTheta(light))
        [] m_CurrentLightingMode = "Radiance"     -> E
        [] m_CurrentLightingMode = "BRDF"         -> BRDF
        [] m_CurrentLightingMode = "Combined"     -> ColorScale(ColorMul(E, BRDF), CosTheta(light))

RECURSIVE SumTerms(_)
SumTerms(i) ==
  IF i = 0 THEN Black
  ELSE IF Contributes(pixIn.lights[i])
         THEN ColorAdd(SumTerms(i - 1), ModeTerm(pixIn.lights[i]))
         ELSE SumTerms(i - 1)

\* C9: for a pixel whose view ray hits, the colour accumulated before
\* clamping is the sum, over the lights neither culled nor shadowed, of the
\* mode's term: white * cosTheta, E, the BRDF response, or E * BRDF * cosTheta.
C9_SumOfTerms ==
  (pixDone /\ pixIn.hit.didHit) => pixOut.finalColor = SumTerms(Len(pixIn.lights))

C9_Witness ==
  /\ pixDone /\ pixIn.hit.didHit
  /\ m_CurrentLightingMode = "Combined" /\ m_ShadowsEnabled
  /\ Len(pixIn.lights) = 2
  /\ ~Behind(pixIn.lights[1]) /\ Occluded(pixIn.lights[1]) /\ pixIn.lights[1].E = <<2, 0, 1>>
  /\ Contributes(pixIn.lights[2])
  /\ pixOut.finalColor = ModeTerm(pixIn.lights[2])
  /\ pixOut.finalColor # Black

ShadeCalls(i) == {pixOut.log[k] : k \in {j \in LogOf(i) : pixOut.log[j][1] = "Shade"}}

\* C10 as stated: Shade receives the hit record, the normalized direction to
\* the light and the negated normalized view-ray direction.
C10_NegatedViewDir ==
  (pixDone /\ pixIn.hit.didHit) =>
     \A i \in 1..Len(pixIn.lights) :
        Contributes(pixIn.lights[i]) =>
           ShadeCalls(i) = {<<"Shade", i, pixIn.hit, Normalized(ToLight(pixIn.lights[i])),
                              VecNeg(Normalized(pixIn.viewRay.direction))>>}

\* C10 amended: for every contributing light Shade is called once, with the
\* hit record, the normalized direction to the light and the normalized
\* view-ray direction itself (from the camera towards the hit point).
C10_ViewDirAsIs ==
  (pixDone /\ pixIn.hit.didHit) =>
     \A i \in 1..Len(pixIn.lights) :
        Contributes(pixIn.lights[i]) =>
           ShadeCalls(i) = {<<"Shade", i, pixIn.hit, Normalized(ToLight(pixIn.lights[i])),
                              Normalized(pixIn.viewRay.direction)>>}

C10_Witness ==
  /\ pixDone /\ pixIn.hit.didHit
  /\ Len(pixIn.lights) = 2
  /\ Contributes(pixIn.lights[1]) /\ Magnitude(ToLight(pixIn.lights[1])) = 2
  /\ ~Contributes(pixIn.lights[2])
  /\ ShadeCalls(1) # {} /\ ShadeCalls(2) = {}

====
